---- MODULE Spec2Model ----
(***************************************************************************)
(* Comment lifecycle pipeline of the TikTok comment manager:               *)
(*   src/app.py               request handlers and the two background tasks *)
(*   src/backend/database.py  the comment / account store                   *)
(*   src/ai_handler.py        batch reply generation and its JSON parsing   *)
(*   src/scraper.py           the automation session                        *)
(***************************************************************************)
EXTENDS Integers, Sequences, FiniteSets, TLC

(***************************************************************************)
(* Bounds of the model.                                                    *)
(***************************************************************************)
MaxBatch == 2
MaxComments == 2
MaxAccounts == 1
MaxRequests == 4
MaxStoreAccounts == 2
MaxStoreComments == 2
MaxTextLen == 118
MaxBlocks == 2

(***************************************************************************)
(* Small value sets for the inputs.                                        *)
(***************************************************************************)
\* The commenters of the page, in page order.
Commenters == <<"alice", "bob", "carol", "dave">>
Videos == {"v1"}

\* A reply that itself contains three backticks, and the replies without.
BacktickReply == "a[3 backticks]b"
PlainReplies == {"r1", "r2"}
Replies == PlainReplies \cup {BacktickReply}

\* ai_handler.py:95 and ai_handler.py:178
PLACEHOLDER == "Merci pour ton commentaire"
DEFAULT_REPLY == "Hello! Merci "

SeqsUpTo(S, n) == UNION {[1..k -> S] : k \in 0..n}

(***************************************************************************)
(* Text returned by the completion request.                                *)
(*                                                                         *)
(* A text is a sequence of tokens.  "FJ" is three backticks followed by    *)
(* json, "F" is three backticks alone; the other tokens are maximal        *)
(* fence-free pieces of text: a complete JSON document (kind "doc", with   *)
(* the decoded value), or text that is not one (kind "frag": prose, or a   *)
(* piece of a document cut by a fence).  Surrounding white space belongs   *)
(* to the pieces: strip() and json.loads both ignore it.                   *)
(***************************************************************************)
FJ == [kind |-> "fence_json"]
F == [kind |-> "fence"]
Frag == [kind |-> "frag"]
DocTok(d) == [kind |-> "doc", val |-> d]

\* One element of the "responses" array: an object with or without the
\* chatgpt_response key, or a value that is no object.
ItemWith(r) == [kind |-> "object", has |-> TRUE, reply |-> r]
ItemWithout == [kind |-> "object", has |-> FALSE, reply |-> ""]
ItemNumber == [kind |-> "number", has |-> FALSE, reply |-> ""]
Items == {ItemWith(r) : r \in Replies} \cup {ItemWithout, ItemNumber}

\* A decoded JSON document: an object with a "responses" array, an object
\* without the key, an object whose "responses" is null, or a JSON array.
ObjDoc(rs) == [kind |-> "object", key |-> "array", responses |-> rs]
NoKeyDoc == [kind |-> "object", key |-> "absent", responses |-> <<>>]
NullDoc == [kind |-> "object", key |-> "null", responses |-> <<>>]
ArrayDoc == [kind |-> "array", key |-> "absent", responses |-> <<>>]
Docs == {ObjDoc(rs) : rs \in SeqsUpTo(Items, MaxBatch + 1)} \cup {NoKeyDoc, NullDoc, ArrayDoc}

ContainsFence(item) == item.has /\ item.reply = BacktickReply

\* The characters of a document as tokens: a string value holding a fence cuts
\* the document's text into pieces none of which is a document.
RECURSIVE CutAtFences(_)
CutAtFences(items) ==
    IF items = <<>> THEN <<Frag>>
    ELSE IF ContainsFence(Head(items))
         THEN <<Frag, F>> \o CutAtFences(Tail(items))
         ELSE CutAtFences(Tail(items))

Serialize(d) ==
    IF \E i \in 1..Len(d.responses) : ContainsFence(d.responses[i])
    THEN CutAtFences(d.responses)
    ELSE <<DocTok(d)>>

\* How the model wraps the document it returns.
Wrappers == {"bare", "json_fence", "plain_fence", "prose_json_fence", "unclosed_json_fence", "prose_bare"}

Wrap(w, body) ==
    CASE w = "bare" -> body
      [] w = "json_fence" -> <<FJ>> \o body \o <<F>>
      [] w = "plain_fence" -> <<F>> \o body \o <<F>>
      [] w = "prose_json_fence" -> <<Frag, FJ>> \o body \o <<F, Frag>>
      [] w = "unclosed_json_fence" -> <<FJ>> \o body
      [] w = "prose_bare" -> <<Frag>> \o body

(***************************************************************************)
(* Results of a call: a value returned or an exception raised.             *)
(***************************************************************************)
Return(v) == [tag |-> "return", val |-> v, exc |-> "none"]
Raise(e) == [tag |-> "raise", val |-> <<>>, exc |-> e]

\* str.split(sep): the pieces of text between the occurrences of sep.
\* seps is the set of tokens in which sep occurs (the plain fence occurs in the json fence too).
RECURSIVE Split(_, _)
Split(text, seps) ==
    IF text = <<>> THEN << <<>> >>
    ELSE LET rest == Split(Tail(text), seps)
         IN IF Head(text) \in seps
            THEN << <<>> >> \o rest
            ELSE << <<Head(text)>> \o Head(rest) >> \o Tail(rest)

Contains(text, seps) == \E i \in 1..Len(text) : text[i] \in seps

\* ai_handler.py:161-168
CleanText(text) ==
    IF Contains(text, {FJ})
    THEN Split(Split(text, {FJ})[2], {F, FJ})[1]
    ELSE IF Contains(text, {F, FJ})
         THEN Split(Split(text, {F, FJ})[2], {F, FJ})[1]
         ELSE text

\* json.loads: the text decodes only when it is one complete document.
json_loads(text) ==
    IF Len(text) = 1 /\ text[1].kind = "doc"
    THEN Return(text[1].val)
    ELSE Raise("JSONDecodeError")

\* ai_handler.py:177-180
ExtractReplies(responses) ==
    IF \E i \in 1..Len(responses) : responses[i].kind # "object"
    THEN Raise("AttributeError")
    ELSE Return([i \in 1..Len(responses) |->
                    IF responses[i].has THEN responses[i].reply ELSE DEFAULT_REPLY])

\* ai_handler.py:149-185
_parse_json_response(response_text) ==
    LET parsed == json_loads(CleanText(response_text))
    IN IF parsed.tag = "raise" THEN parsed
       ELSE IF parsed.val.kind # "object" THEN Raise("AttributeError")
       ELSE IF parsed.val.key = "null" THEN Raise("TypeError")
       ELSE IF parsed.val.key = "absent" THEN Return(<<>>)
       ELSE ExtractReplies(parsed.val.responses)

\* Outcomes of client.chat.completions.create followed by
\* response.choices[0].message.content.strip().
ApiError == [kind |-> "error", text |-> <<>>]
ApiNone == [kind |-> "none", text |-> <<>>]
ApiText(t) == [kind |-> "text", text |-> t]

\* ai_handler.py:53-89, the body of the try block
BatchTry(comments_data, api) ==
    IF api.kind = "error" THEN Raise("APIError")
    ELSE IF api.kind = "none" THEN Raise("AttributeError")
    ELSE _parse_json_response(api.text)

\* The except clause as the specification describes it: a decode failure is
\* not degraded.
BatchExceptPropagatingDecode(comments_data, e) ==
    IF e = "JSONDecodeError" THEN Raise(e)
    ELSE Return([i \in 1..Len(comments_data) |-> PLACEHOLDER])

\* The except clause with a single placeholder for the whole batch.
BatchExceptOnePlaceholder(comments_data, e) ==
    Return(<<PLACEHOLDER>>)

\* ai_handler.py:91-97, except Exception
BatchExcept(comments_data, e) ==
    Return([i \in 1..Len(comments_data) |-> PLACEHOLDER])

\* ai_handler.py:31-97
generate_batch_responses(comments_data, api) ==
    IF comments_data = <<>> THEN Return(<<>>)
    ELSE LET r == BatchTry(comments_data, api)
         IN IF r.tag = "raise" THEN BatchExcept(comments_data, r.exc) ELSE r

\* A generate_batch_responses that asks the model again when the first
\* request or the decoding of its result failed.
CompletionRequestsWithRetry(comments_data, api) ==
    IF comments_data = <<>> THEN 0
    ELSE IF BatchTry(comments_data, api).tag = "raise" THEN 2 ELSE 1

\* ai_handler.py:48-97: the number of calls of chat.completions.create.
\* An empty batch returns before the call (48-50); the try block calls it
\* once for the whole batch (59-73); the except block calls nothing.
CompletionRequests(comments_data, api) ==
    IF comments_data = <<>> THEN 0 ELSE 1


(***************************************************************************)
(* State of the service.                                                   *)
(***************************************************************************)
VARIABLES
    scraperImported, \* whether the name TikTokScraper is bound in app.py
    accounts,        \* table accounts: id -> row
    comments,        \* table comments: id -> row
    nextAccountId,   \* AUTOINCREMENT of accounts
    nextCommentId,   \* AUTOINCREMENT of comments
    scraper,         \* the global session handle of app.py
    accepted,        \* background tasks added by a handler and not yet started
    task,            \* the background task the event loop is running, or the last one it ran
    last,            \* the last inbound request and its answer
    genIn,           \* input of a stand-alone call of generate_batch_responses
    genOut,          \* its result
    callIn,          \* input of a stand-alone call of another method
    callOut          \* its result

vars == <<scraperImported, accounts, comments, nextAccountId, nextCommentId,
          scraper, accepted, task, last, genIn, genOut, callIn, callOut>>

storeVars == <<accounts, comments, nextAccountId, nextCommentId>>
genVars == <<genIn, genOut>>
callVars == <<callIn, callOut>>

AccountNames == {"@soeurbonplan", "@autre"}
Statuses == {"pending", "validated", "rejected", "published", "failed"}
ModifiedResponses == {"m1"}

Min(a, b) == IF a <= b THEN a ELSE b

\* The elements of a set of integers in increasing order.
RECURSIVE SortedSeq(_)
SortedSeq(S) ==
    IF S = {} THEN <<>>
    ELSE LET m == CHOOSE x \in S : \A y \in S : x <= y
         IN <<m>> \o SortedSeq(S \ {m})

(***************************************************************************)
(* backend/database.py                                                     *)
(***************************************************************************)
\* database.py:128-136
get_account(accs, account_id) ==
    IF account_id \in DOMAIN accs THEN {accs[account_id]} ELSE {}

\* database.py:236-244
get_comment(cs, comment_id) ==
    IF comment_id \in DOMAIN cs THEN {cs[comment_id]} ELSE {}

\* database.py:246-257: the rows whose id is listed, each once, by rowid.
get_comments_by_ids(cs, comment_ids) ==
    LET found == SortedSeq(comment_ids \cap DOMAIN cs)
    IN [i \in 1..Len(found) |-> cs[found[i]]]

\* save_comment that ignores the status it is given and leaves the column NULL.
SaveCommentNoStatus(cs, id, comment_data) ==
    [c \in DOMAIN cs \cup {id} |->
        IF c = id
        THEN [id |-> id,
              video_url |-> comment_data.video_url,
              account_id |-> comment_data.account_id,
              username |-> comment_data.username,
              comment_text |-> comment_data.comment_text,
              ai_response |-> comment_data.ai_response,
              status |-> "NULL"]
        ELSE cs[c]]

\* A save_comment that replaces the row of the same video, account and
\* commenter when there is one.
SaveCommentUpsert(cs, id, comment_data) ==
    LET same == {c \in DOMAIN cs : /\ cs[c].video_url = comment_data.video_url
                                   /\ cs[c].account_id = comment_data.account_id
                                   /\ cs[c].username = comment_data.username}
        row(c) == [id |-> c,
                   video_url |-> comment_data.video_url,
                   account_id |-> comment_data.account_id,
                   username |-> comment_data.username,
                   comment_text |-> comment_data.comment_text,
                   ai_response |-> comment_data.ai_response,
                   status |-> comment_data.status]
    IN IF same = {} THEN [c \in DOMAIN cs \cup {id} |-> IF c = id THEN row(id) ELSE cs[c]]
       ELSE [c \in DOMAIN cs |-> IF c \in same THEN row(c) ELSE cs[c]]

\* database.py:166-195: the table after the INSERT; id is the new rowid.
save_comment(cs, id, comment_data) ==
    [c \in DOMAIN cs \cup {id} |->
        IF c = id
        THEN [id |-> id,
              video_url |-> comment_data.video_url,
              account_id |-> comment_data.account_id,
              username |-> comment_data.username,
              comment_text |-> comment_data.comment_text,
              ai_response |-> comment_data.ai_response,
              status |-> comment_data.status]
        ELSE cs[c]]

\* database.py:259-277: UPDATE ... WHERE id = ?
update_comment_status(cs, comment_id, status) ==
    IF comment_id \in DOMAIN cs
    THEN [cs EXCEPT ![comment_id].status = status]
    ELSE cs

\* update_comment_response that writes the text and leaves the status.
UpdateResponseTextOnly(cs, comment_id, new_response, status) ==
    IF comment_id \in DOMAIN cs
    THEN [cs EXCEPT ![comment_id].ai_response = new_response]
    ELSE cs

\* database.py:279-298: one UPDATE sets ai_response and status together.
update_comment_response(cs, comment_id, new_response, status) ==
    IF comment_id \in DOMAIN cs
    THEN [cs EXCEPT ![comment_id].ai_response = new_response,
                    ![comment_id].status = status]
    ELSE cs

\* A delete_account that removes the account row only.
DeleteAccountNoCascade(cs, account_id) ==
    cs

\* database.py:152-162: the comments table after the cascade.
delete_account_comments(cs, account_id) ==
    [c \in {x \in DOMAIN cs : cs[x].account_id # account_id} |-> cs[c]]


(***************************************************************************)
(* Background tasks and the event loop.                                    *)
(*                                                                         *)
(* Both background functions are coroutines without an await: once the     *)
(* event loop starts one it runs to its end before any handler or other    *)
(* task runs.  Handlers run between a request's acceptance and the start   *)
(* of its task.                                                            *)
(***************************************************************************)
AccountIds == 1..MaxAccounts
CommentIds == 1..MaxComments

NoTask ==
    [kind |-> "none", pc |-> "none", video_url |-> "", comment_ids |-> {},
     account_id |-> 0, page |-> Return(<<>>), api |-> ApiError,
     comments_data |-> <<>>, ai_responses |-> <<>>, rows |-> <<>>, k |-> 0, first |-> 0,
     fetched |-> {}, okset |-> {}, browser |-> "starts", save_error |-> FALSE]

ScrapeTask(url, account_id) ==
    [NoTask EXCEPT !.kind = "scrape", !.pc = "accepted",
                   !.video_url = url, !.account_id = account_id]

PublishTask(ids, account_id) ==
    [NoTask EXCEPT !.kind = "publish", !.pc = "accepted",
                   !.comment_ids = ids, !.account_id = account_id]

\* Background functions that give the event loop back between their steps.
IdleAtEveryStep == TRUE

\* app.py:100 and app.py:235: the event loop is free when no background
\* function is running.
Idle == task.pc \in {"none", "done"}

Answer(op, code, arg) == [n |-> last.n + 1, op |-> op, code |-> code, arg |-> arg]

CanRequest == Idle /\ last.n < MaxRequests

(***************************************************************************)
(* app.py: request handlers.  An HTTPException raised inside a handler's   *)
(* try block is caught by its own except Exception and raised again with   *)
(* status 500.                                                             *)
(***************************************************************************)
\* The number of rows a batch can still add to the comments table: the
\* pages met by a task hold no more comments than that.
RoomForBatch ==
    Min(MaxBatch, MaxComments - (nextCommentId - 1))

\* An up-front check that only looks whether the account exists.
AccountUsableIfExists(account) ==
    account # {}

\* A handler without the up-front check of the account.
AccountUsableAlways(account) ==
    TRUE

\* app.py:81: the account exists and is active.
AccountUsable(account) ==
    account # {} /\ \A a \in account : a.active

\* A handler that calls the background function itself before it returns.
RunningInline(running, added) ==
    IF running.pc \in {"none", "done"} THEN [added EXCEPT !.pc = "init"] ELSE running

\* app.py:85-89 and app.py:220-224: add_task registers the function and its
\* arguments; nothing of it runs before the handler returns its answer.
RunningAfterAddTask(running, added) ==
    running

\* app.py:73-98
scrape_video(url, account_id) ==
    /\ CanRequest
    /\ LET account == get_account(accounts, account_id)
           ok == AccountUsable(account)
       IN /\ accepted' = IF ok THEN Append(accepted, ScrapeTask(url, account_id))
                         ELSE accepted
          /\ task' = IF ok THEN RunningAfterAddTask(task, ScrapeTask(url, account_id))
                     ELSE task
          /\ last' = Answer("scrape", IF ok THEN 200 ELSE 500,
                            [url |-> url, account_id |-> account_id])
    /\ UNCHANGED <<scraperImported, storeVars, scraper, genVars, callVars>>

\* The moderation text: absent, empty, or a replacement reply.
ModerationTexts == {"None", ""} \cup ModifiedResponses
Truthy(text) == text \notin {"None", ""}

\* validate_comment that refuses a comment that is no longer pending.
ModerateRowsPendingOnly(cs, comment_id, action, modified_response) ==
    IF comment_id \in DOMAIN cs /\ cs[comment_id].status # "pending" THEN cs
    ELSE IF action = "validate" THEN update_comment_status(cs, comment_id, "validated")
    ELSE IF action = "reject" THEN update_comment_status(cs, comment_id, "rejected")
    ELSE IF action = "modify" /\ Truthy(modified_response)
         THEN update_comment_response(cs, comment_id, modified_response, "validated")
    ELSE cs

\* validate_comment that takes every modify, with or without a text.
ModerateRowsModifyAlways(cs, comment_id, action, modified_response) ==
    IF action = "validate" THEN update_comment_status(cs, comment_id, "validated")
    ELSE IF action = "reject" THEN update_comment_status(cs, comment_id, "rejected")
    ELSE IF action = "modify"
         THEN update_comment_response(cs, comment_id, modified_response, "validated")
    ELSE cs

\* app.py:182-192
ModerateRows(cs, comment_id, action, modified_response) ==
    IF action = "validate" THEN update_comment_status(cs, comment_id, "validated")
    ELSE IF action = "reject" THEN update_comment_status(cs, comment_id, "rejected")
    ELSE IF action = "modify" /\ Truthy(modified_response)
         THEN update_comment_response(cs, comment_id, modified_response, "validated")
    ELSE cs

\* app.py:172-201
validate_comment(comment_id, action, modified_response) ==
    /\ CanRequest
    /\ LET comment == get_comment(comments, comment_id)
           arg == [id |-> comment_id, action |-> action, text |-> modified_response,
                   pre |-> IF comment = {} THEN "absent" ELSE comments[comment_id].status]
       IN IF comment = {}
          THEN /\ comments' = comments
               /\ last' = Answer("moderate", 500, arg)
          ELSE /\ comments' = ModerateRows(comments, comment_id, action, modified_response)
               /\ last' = Answer("moderate", 200, arg)
    /\ UNCHANGED <<scraperImported, accounts, nextAccountId, nextCommentId,
                   scraper, accepted, task, genVars, callVars>>

\* The up-front check that looks at the first named row only.
InvalidCommentsFirstOnly(rows) ==
    {i \in 1..Min(1, Len(rows)) : rows[i].status # "validated"}

\* app.py:212
InvalidComments(rows) ==
    {i \in 1..Len(rows) : rows[i].status # "validated"}

\* app.py:203-233
publish_comments(comment_ids, account_id) ==
    /\ CanRequest
    /\ LET rows == get_comments_by_ids(comments, comment_ids)
           ok == InvalidComments(rows) = {}
           arg == [ids |-> comment_ids, account_id |-> account_id,
                   pre |-> [c \in comment_ids \cap DOMAIN comments |-> comments[c].status]]
       IN /\ accepted' = IF ok THEN Append(accepted, PublishTask(comment_ids, account_id))
                         ELSE accepted
          /\ task' = IF ok THEN RunningAfterAddTask(task, PublishTask(comment_ids, account_id))
                     ELSE task
          /\ last' = Answer("publish", IF ok THEN 200 ELSE 500, arg)
    /\ UNCHANGED <<scraperImported, storeVars, scraper, genVars, callVars>>

\* app.py:284-297 and database.py:90-116
create_account(username, active) ==
    /\ CanRequest
    /\ nextAccountId <= MaxAccounts
    /\ IF \E a \in DOMAIN accounts : accounts[a].username = username
       THEN /\ UNCHANGED <<accounts, nextAccountId>>
            /\ last' = Answer("create_account", 500, [id |-> 0])
       ELSE /\ accounts' = [a \in DOMAIN accounts \cup {nextAccountId} |->
                              IF a = nextAccountId
                              THEN [id |-> a, username |-> username, active |-> active]
                              ELSE accounts[a]]
            /\ nextAccountId' = nextAccountId + 1
            /\ last' = Answer("create_account", 200, [id |-> nextAccountId])
    /\ UNCHANGED <<scraperImported, comments, nextCommentId, scraper, accepted, task, genVars, callVars>>

\* app.py:299-308 and database.py:152-162
delete_account(account_id) ==
    /\ CanRequest
    /\ comments' = delete_account_comments(comments, account_id)
    /\ accounts' = [a \in DOMAIN accounts \ {account_id} |-> accounts[a]]
    /\ last' = Answer("delete_account", 200, [id |-> account_id])
    /\ UNCHANGED <<scraperImported, nextAccountId, nextCommentId, scraper, accepted, task, genVars, callVars>>

\* app.py:310-323 and database.py:138-150
toggle_account(account_id, active) ==
    /\ CanRequest
    /\ accounts' = IF account_id \in DOMAIN accounts
                   THEN [accounts EXCEPT ![account_id].active = active]
                   ELSE accounts
    /\ last' = Answer("toggle_account", 200, [id |-> account_id])
    /\ UNCHANGED <<scraperImported, comments, nextAccountId, nextCommentId, scraper,
                   accepted, task, genVars, callVars>>


(***************************************************************************)
(* What the outside world answers to a task: whether the browser starts    *)
(* when a session is created, the result of scraper.scrape_video on the    *)
(* page, the completion the model gives, and the comments on which         *)
(* scraper.reply_to_comment succeeds.                                      *)
(***************************************************************************)
\* scraper.py:29-55: webdriver.Chrome starts or raises.
BrowserOutcomes == {"starts", "fails"}

\* What scrape_video returns on a page showing the first k commenters.
PageComments(k) ==
    [i \in 1..k |-> [username |-> Commenters[i],
                      comment_text |-> IF i % 2 = 1 THEN "super video" ELSE "merci"]]

ScrapeOutcomes ==
    {Raise("TimeoutException")} \cup {Return(PageComments(k)) : k \in 0..RoomForBatch}

\* The reply arrays the model gives in the pipeline: r1, r2, r1, ... cut at
\* each length up to one more than the largest batch.
PipelineReplies(k) == [i \in 1..k |-> ItemWith(IF i % 2 = 1 THEN "r1" ELSE "r2")]

PipelineApi ==
    {ApiError, ApiText(<<Frag>>)}
      \cup {ApiText(Serialize(ObjDoc(PipelineReplies(k)))) : k \in 0..(MaxBatch + 1)}

Done(t) == [NoTask EXCEPT !.kind = t.kind, !.pc = "done"]

\* The queue without its i-th element.
Without(q, i) == [j \in 1..(Len(q) - 1) |-> IF j < i THEN q[j] ELSE q[j + 1]]

\* The event loop starts an accepted ingestion task.
start_scraping(i) ==
    /\ Idle
    /\ accepted[i].kind = "scrape"
    /\ \E page \in ScrapeOutcomes, api \in PipelineApi, browser \in BrowserOutcomes :
          task' = [accepted[i] EXCEPT !.pc = "init", !.page = page, !.api = api,
                                      !.browser = browser]
    /\ accepted' = Without(accepted, i)
    /\ UNCHANGED <<scraperImported, storeVars, scraper, last, genVars, callVars>>

\* The event loop starts an accepted publication task.
start_publishing(i) ==
    /\ Idle
    /\ accepted[i].kind = "publish"
    /\ \E browser \in BrowserOutcomes :
          task' = [accepted[i] EXCEPT !.pc = "init", !.browser = browser]
    /\ accepted' = Without(accepted, i)
    /\ UNCHANGED <<scraperImported, storeVars, scraper, last, genVars, callVars>>

\* app.py:108-109 and app.py:242-243: if not scraper: scraper = TikTokScraper().
\* The name is looked up when the line runs: unbound, it raises NameError;
\* bound, the constructor starts the browser, which can fail.
session_init ==
    /\ task.pc = "init"
    /\ LET body == IF task.kind = "scrape" THEN "scrape" ELSE "fetch"
       IN IF scraper # "None"
          THEN /\ task' = [task EXCEPT !.pc = body]
               /\ scraper' = scraper
          ELSE IF ~scraperImported
          THEN /\ task' = [task EXCEPT !.pc = "finally"]
               /\ scraper' = scraper
          ELSE /\ task' = [task EXCEPT !.pc = IF task.browser = "starts" THEN body
                                              ELSE "finally"]
               /\ scraper' = IF task.browser = "starts" THEN "open" ELSE scraper
    /\ UNCHANGED <<scraperImported, storeVars, accepted, last, genVars, callVars>>

\* app.py:112-116
scraping_extract ==
    /\ task.pc = "scrape"
    /\ IF task.page.tag = "raise" \/ task.page.val = <<>>
       THEN task' = [task EXCEPT !.pc = "finally"]
       ELSE task' = [task EXCEPT !.pc = "generate", !.comments_data = task.page.val]
    /\ UNCHANGED <<scraperImported, storeVars, scraper, accepted, last, genVars, callVars>>

\* app.py:119-126
scraping_generate ==
    /\ task.pc = "generate"
    /\ LET r == generate_batch_responses(task.comments_data, task.api)
       IN IF r.tag = "raise"
          THEN task' = [task EXCEPT !.pc = "finally"]
          ELSE task' = [task EXCEPT !.pc = "save", !.ai_responses = r.val,
                                    !.k = 1, !.first = nextCommentId]
    /\ UNCHANGED <<scraperImported, storeVars, scraper, accepted, last, genVars, callVars>>

\* app.py:129: the number of pairs zip(comments_data, ai_responses) yields.
ZipLen(comments_data, ai_responses) ==
    Min(Len(comments_data), Len(ai_responses))

\* A loop that pairs every comment with the first reply.
CommentDataFirstReply(t, k) ==
    [video_url |-> t.video_url,
     account_id |-> t.account_id,
     username |-> t.comments_data[k].username,
     comment_text |-> t.comments_data[k].comment_text,
     ai_response |-> t.ai_responses[1],
     status |-> "pending"]

\* app.py:130-138: the k-th row handed to save_comment.
CommentData(t, k) ==
    [video_url |-> t.video_url,
     account_id |-> t.account_id,
     username |-> t.comments_data[k].username,
     comment_text |-> t.comments_data[k].comment_text,
     ai_response |-> t.ai_responses[k],
     status |-> "pending"]

\* An except block that deletes the rows the batch has saved so far.
RollbackBatch(cs, first) ==
    [c \in {x \in DOMAIN cs : x < first} |-> cs[c]]

\* app.py:142-143: the except block prints the error; every row saved
\* before was committed by its own save_comment (database.py:193).
CommentsAfterSaveError(cs, first) ==
    cs

\* app.py:129-140, one iteration of the loop or its end.  The INSERT or
\* its commit can raise (database locked, disk full): the exception ends
\* the loop and goes to the except block of the task.
scraping_save ==
    /\ task.pc = "save"
    /\ IF task.k <= ZipLen(task.comments_data, task.ai_responses)
       THEN \/ /\ comments' = save_comment(comments, nextCommentId, CommentData(task, task.k))
               /\ nextCommentId' = nextCommentId + 1
               /\ task' = [task EXCEPT !.k = task.k + 1]
            \/ /\ comments' = CommentsAfterSaveError(comments, task.first)
               /\ nextCommentId' = nextCommentId
               /\ task' = [task EXCEPT !.pc = "finally", !.save_error = TRUE]
       ELSE /\ task' = [task EXCEPT !.pc = "finally"]
            /\ UNCHANGED <<comments, nextCommentId>>
    /\ UNCHANGED <<scraperImported, accounts, nextAccountId, scraper, accepted, last, genVars, callVars>>

\* app.py:246: the rows read back, and the page's answer to each reply.
publishing_fetch ==
    /\ task.pc = "fetch"
    /\ LET rows == get_comments_by_ids(comments, task.comment_ids)
           ids == {rows[i].id : i \in 1..Len(rows)}
       IN \E okset \in SUBSET ids :
             task' = [task EXCEPT !.pc = "loop", !.rows = rows,
                                  !.fetched = ids, !.okset = okset]
    /\ UNCHANGED <<scraperImported, storeVars, scraper, accepted, last, genVars, callVars>>

\* A loop whose try block encloses the whole loop: the first failure ends it.
RowsLeftStopOnFailure(rows, ok) ==
    IF ok THEN Tail(rows) ELSE <<>>

\* A loop that tries a comment again when the agent failed on it.
RowsLeftRetryOnFailure(rows, ok) ==
    IF ok THEN Tail(rows) ELSE rows

\* app.py:250: the rows still to publish after one iteration.
RowsLeft(rows, ok) ==
    Tail(rows)

\* app.py:250-264, one iteration of the loop or its end
publishing_one ==
    /\ task.pc = "loop"
    /\ IF task.rows # <<>>
       THEN LET comment == Head(task.rows)
                ok == comment.id \in task.okset
            IN /\ comments' = update_comment_status(comments, comment.id,
                                     IF ok THEN "published" ELSE "failed")
               /\ task' = [task EXCEPT !.rows = RowsLeft(task.rows, ok)]
       ELSE /\ task' = [task EXCEPT !.pc = "finally"]
            /\ comments' = comments
    /\ UNCHANGED <<scraperImported, accounts, nextAccountId, nextCommentId, scraper,
                   accepted, last, genVars, callVars>>

\* A finally block that closes the browser and keeps the handle.
SessionKeptAfterClose(session) ==
    session

\* app.py:146-148 and app.py:269-271: if scraper: scraper.close(); scraper = None.
\* close() is driver.quit(), which for Chrome swallows the errors of the
\* quit command, so the assignment is always reached.
SessionAfterFinally(session) ==
    "None"

\* app.py:144-148 and app.py:268-271
task_finally ==
    /\ task.pc = "finally"
    /\ scraper' = SessionAfterFinally(scraper)
    /\ task' = Done(task)
    /\ UNCHANGED <<scraperImported, storeVars, accepted, last, genVars, callVars>>

(***************************************************************************)
(* The service.                                                            *)
(***************************************************************************)
GenIdle == [comments_data |-> <<>>, api |-> ApiError, wrapper |-> "none", body |-> "none",
            doc |-> NoKeyDoc]
GenNotRun == [tag |-> "not run", val |-> <<>>, exc |-> "none"]
NoCall == [method |-> "none"]

\* The store is a file that outlives the process (database.py:17-28 and
\* the CREATE TABLE IF NOT EXISTS of init_database): the service starts on
\* an empty store or on one in which the operator's account was created.
OperatorAccount == [id |-> 1, username |-> "@soeurbonplan", active |-> TRUE]

Init ==
    /\ scraperImported \in BOOLEAN
    /\ \/ accounts = <<>> /\ nextAccountId = 1
       \/ accounts = <<OperatorAccount>> /\ nextAccountId = 2
    /\ comments = <<>>
    /\ nextCommentId = 1
    /\ scraper = "None"
    /\ accepted = <<>>
    /\ task = NoTask
    /\ last = [n |-> 0, op |-> "none", code |-> 0, arg |-> [id |-> 0]]
    /\ genIn = GenIdle
    /\ genOut = GenNotRun
    /\ callIn = NoCall
    /\ callOut = NoCall

Next ==
    \/ \E url \in Videos, a \in AccountIds : scrape_video(url, a)
    \/ \E c \in CommentIds, action \in {"validate", "reject", "modify", "approve"},
          text \in ModerationTexts :
          /\ action # "modify" => text = "None"
          /\ validate_comment(c, action, text)
    \/ \E ids \in SUBSET CommentIds, a \in AccountIds : publish_comments(ids, a)
    \/ \E u \in AccountNames, active \in BOOLEAN : create_account(u, active)
    \/ \E a \in AccountIds : delete_account(a)
    \/ \E a \in AccountIds, active \in BOOLEAN : toggle_account(a, active)
    \/ \E i \in 1..Len(accepted) : start_scraping(i)
    \/ \E i \in 1..Len(accepted) : start_publishing(i)
    \/ session_init
    \/ scraping_extract
    \/ scraping_generate
    \/ scraping_save
    \/ publishing_fetch
    \/ publishing_one
    \/ task_finally

Spec == Init /\ [][Next]_vars


(***************************************************************************)
(* Stand-alone calls of generate_batch_responses.                          *)
(***************************************************************************)
GenText(w, body, d) ==
    IF body = "doc" THEN Wrap(w, Serialize(d))
    ELSE IF body = "garbage" THEN Wrap(w, <<Frag>>)
    ELSE Wrap(w, <<>>)

GenInputs ==
    {[comments_data |-> PageComments(k), api |-> a, wrapper |-> "none", body |-> "none",
      doc |-> NoKeyDoc] : k \in 0..MaxBatch, a \in {ApiError, ApiNone}}
    \cup
    {[comments_data |-> PageComments(k), api |-> ApiText(GenText(w, "doc", d)), wrapper |-> w,
      body |-> "doc", doc |-> d] : k \in 0..MaxBatch, w \in Wrappers, d \in Docs}
    \cup
    {[comments_data |-> PageComments(k), api |-> ApiText(GenText(w, b, NoKeyDoc)), wrapper |-> w,
      body |-> b, doc |-> NoKeyDoc] :
        k \in 0..MaxBatch, w \in Wrappers, b \in {"garbage", "empty"}}

GenInit ==
    /\ scraperImported = FALSE
    /\ accounts = <<>> /\ nextAccountId = 1
    /\ comments = <<>>
    /\ nextCommentId = 1
    /\ scraper = "None"
    /\ accepted = <<>>
    /\ task = NoTask
    /\ last = [n |-> 0, op |-> "none", code |-> 0, arg |-> [id |-> 0]]
    /\ genIn \in GenInputs
    /\ genOut = GenNotRun
    /\ callIn = NoCall
    /\ callOut = NoCall

GenerateBatch ==
    /\ genOut = GenNotRun
    /\ genOut' = generate_batch_responses(genIn.comments_data, genIn.api)
    /\ callOut' = [method |-> "generate_batch_responses",
                   requests |-> CompletionRequests(genIn.comments_data, genIn.api)]
    /\ UNCHANGED <<scraperImported, storeVars, scraper, accepted, task, last, genIn, callIn>>

GenNext == GenerateBatch

SpecGen == GenInit /\ [][GenNext]_vars


(***************************************************************************)
(* Account deletion on a store that holds several accounts.  The store is  *)
(* a file: the service starts on whatever earlier runs left in it.  The    *)
(* foreign key of comments.account_id is declared but not enforced (no     *)
(* PRAGMA foreign_keys), so a comment may name an account that is gone.    *)
(***************************************************************************)
StoreAccountIds == 1..MaxStoreAccounts
StoreNames == <<"@soeurbonplan", "@autre", "@troisieme", "@quatrieme">>

StoredAccount(a) == [id |-> a, username |-> StoreNames[a], active |-> TRUE]

StoredComment(c, owner, status) ==
    [id |-> c, video_url |-> "v1", account_id |-> owner,
     username |-> Commenters[c],
     comment_text |-> "super video", ai_response |-> "r1", status |-> status]

StoreInit ==
    /\ scraperImported = FALSE
    /\ \E ids \in SUBSET StoreAccountIds : accounts = [a \in ids |-> StoredAccount(a)]
    /\ nextAccountId = MaxStoreAccounts + 1
    /\ \E k \in 0..MaxStoreComments :
          \E owners \in [1..k -> StoreAccountIds], st \in [1..k -> Statuses] :
             /\ comments = [c \in 1..k |-> StoredComment(c, owners[c], st[c])]
             /\ nextCommentId = k + 1
    /\ scraper = "None"
    /\ accepted = <<>>
    /\ task = NoTask
    /\ last = [n |-> 0, op |-> "none", code |-> 0, arg |-> [id |-> 0]]
    /\ genIn = GenIdle
    /\ genOut = GenNotRun
    /\ callIn = NoCall
    /\ callOut = NoCall

StoreNext == \E a \in StoreAccountIds : delete_account(a)

SpecStore == StoreInit /\ [][StoreNext]_vars

\* Publication on a store that holds the comments of two accounts, pending
\* or validated; MaxPublishRequests publish requests are followed.
MaxPublishRequests == 2

PublishInit ==
    /\ scraperImported \in BOOLEAN
    /\ accounts = [a \in StoreAccountIds |-> StoredAccount(a)]
    /\ nextAccountId = MaxStoreAccounts + 1
    /\ \E k \in 1..MaxStoreComments :
          \E owners \in [1..k -> StoreAccountIds], st \in [1..k -> {"pending", "validated"}] :
             /\ comments = [c \in 1..k |-> StoredComment(c, owners[c], st[c])]
             /\ nextCommentId = k + 1
    /\ scraper = "None"
    /\ accepted = <<>>
    /\ task = NoTask
    /\ last = [n |-> 0, op |-> "none", code |-> 0, arg |-> [id |-> 0]]
    /\ genIn = GenIdle
    /\ genOut = GenNotRun
    /\ callIn = NoCall
    /\ callOut = NoCall

PublishNext ==
    \/ \E ids \in SUBSET (1..MaxStoreComments), a \in StoreAccountIds :
          /\ last.n < MaxPublishRequests
          /\ publish_comments(ids, a)
    \/ \E i \in 1..Len(accepted) : start_publishing(i)
    \/ session_init
    \/ publishing_fetch
    \/ publishing_one
    \/ task_finally

SpecPublish == PublishInit /\ [][PublishNext]_vars


(***************************************************************************)
(* Length enforcement of a single reply (ai_handler.py).  A reply is a     *)
(* sequence of characters.                                                 *)
(***************************************************************************)
MAX_LENGTH == 114
MARKER == <<".", ".", ".">>

\* response[:n] for n >= 0
Take(response, n) ==
    SubSeq(response, 1, IF n <= Len(response) THEN n ELSE Len(response))

\* A truncation that cuts at the limit and then appends the marker.
TruncateThenAppend(response, max_length) ==
    IF Len(response) <= max_length THEN response
    ELSE Take(response, max_length) \o MARKER

\* ai_handler.py:265-279
truncate_response(response, max_length) ==
    IF Len(response) <= max_length THEN response
    ELSE Take(response, max_length - 3) \o MARKER

\* ai_handler.py:241-246: the same check written out in generate_single_response.
CheckLength(ai_response) ==
    IF Len(ai_response) > 114 THEN Take(ai_response, 111) \o MARKER
    ELSE ai_response

\* Replies of every length up to MaxTextLen, in three shapes: letters
\* only, dots only, and letters and dots alternating.
TextShapes == {"letters", "dots", "alternating"}

TextOf(shape, n) ==
    [i \in 1..n |->
        IF shape = "dots" THEN "."
        ELSE IF shape = "alternating" /\ i % 2 = 0 THEN "."
        ELSE <<"a", "b", "c">>[(i % 3) + 1]]

TruncMethods == {"truncate_response", "generate_single_response"}

TruncInit ==
    /\ scraperImported = FALSE
    /\ accounts = <<>> /\ nextAccountId = 1
    /\ comments = <<>>
    /\ nextCommentId = 1
    /\ scraper = "None"
    /\ accepted = <<>>
    /\ task = NoTask
    /\ last = [n |-> 0, op |-> "none", code |-> 0, arg |-> [id |-> 0]]
    /\ genIn = GenIdle
    /\ genOut = GenNotRun
    /\ \E m \in TruncMethods, shape \in TextShapes, n \in 0..MaxTextLen :
          callIn = [method |-> m, text |-> TextOf(shape, n)]
    /\ callOut = NoCall

\* truncate_response applied to a reply, and then to its own result.
TruncateCall ==
    /\ callIn.method = "truncate_response"
    /\ \/ /\ callOut = NoCall
          /\ LET r == truncate_response(callIn.text, MAX_LENGTH)
             IN callOut' = [method |-> callIn.method, n |-> 1, first |-> r, val |-> r]
       \/ /\ callOut # NoCall /\ callOut.n = 1
          /\ callOut' = [callOut EXCEPT !.n = 2,
                                        !.val = truncate_response(callOut.val, MAX_LENGTH)]
    /\ UNCHANGED <<scraperImported, storeVars, scraper, accepted, task, last, genVars, callIn>>

\* generate_single_response checks the length of the text the model gave.
SingleResponseCall ==
    /\ callIn.method = "generate_single_response"
    /\ callOut = NoCall
    /\ LET r == CheckLength(callIn.text)
       IN callOut' = [method |-> callIn.method, n |-> 1, first |-> r, val |-> r]
    /\ UNCHANGED <<scraperImported, storeVars, scraper, accepted, task, last, genVars, callIn>>

TruncNext == TruncateCall \/ SingleResponseCall

SpecTrunc == TruncInit /\ [][TruncNext]_vars


(***************************************************************************)
(* scraper.py: TikTokScraper.scrape_video on one page.                     *)
(*                                                                         *)
(* A name is a sequence of characters.  An href is a sequence of pieces in *)
(* which the separators "/@" and "?" are pieces of their own.              *)
(***************************************************************************)
\* scraper.py:197, the last character being the ribbon emoji
excluded_username ==
    <<"s", "o", "e", "u", "r", " ", "b", "o", "n", "p", "l", "a", "n", " ", "ribbon">>

UpperChars == <<"S", "O", "E", "U", "R", "B", "N", "P", "L", "A">>
LowerChars == <<"s", "o", "e", "u", "r", "b", "n", "p", "l", "a">>

\* str.lower
Lower(name) ==
    [i \in 1..Len(name) |->
        IF \E j \in 1..Len(UpperChars) : UpperChars[j] = name[i]
        THEN LowerChars[CHOOSE j \in 1..Len(UpperChars) : UpperChars[j] = name[i]]
        ELSE name[i]]

\* str.strip
RECURSIVE Strip(_)
Strip(name) ==
    IF name = <<>> THEN name
    ELSE IF Head(name) = " " THEN Strip(Tail(name))
    ELSE IF name[Len(name)] = " " THEN Strip(SubSeq(name, 1, Len(name) - 1))
    ELSE name

\* href.split(sep)[-1]
RECURSIVE AfterLast(_, _)
AfterLast(href, sep) ==
    IF \E i \in 1..Len(href) : href[i] = sep
    THEN AfterLast(SubSeq(href, (CHOOSE i \in 1..Len(href) :
                                     href[i] = sep /\ \A j \in 1..(i - 1) : href[j] # sep) + 1,
                          Len(href)), sep)
    ELSE href

\* piece.split(sep)[0]
BeforeFirst(piece, sep) ==
    IF \E i \in 1..Len(piece) : piece[i] = sep
    THEN SubSeq(piece, 1, (CHOOSE i \in 1..Len(piece) :
                              piece[i] = sep /\ \A j \in 1..(i - 1) : piece[j] # sep) - 1)
    ELSE piece

\* Names shown on the page.
OperatorTitleCase ==
    <<"S", "o", "e", "u", "r", " ", "B", "o", "n", "p", "l", "a", "n", " ", "ribbon">>
OperatorUpperCase ==
    <<"S", "O", "E", "U", "R", " ", "B", "O", "N", "P", "L", "A", "N", " ", "ribbon">>
OperatorPadded == <<" ">> \o excluded_username \o <<" ">>
OperatorWithPrefix == <<"x">> \o OperatorTitleCase
OperatorWithSuffix == excluded_username \o <<"!">>
OperatorWithoutRibbon == SubSeq(excluded_username, 1, 13)
Alice == <<"a", "l", "i", "c", "e">>
Bob == <<"b", "o", "b">>

\* What the page gives for the profile link of a block: no link, a link
\* whose href holds "/@", or a link read by its text.
NoElement == [found |-> FALSE, href |-> <<>>, text |-> <<>>]
ProfileLink(href) == [found |-> TRUE, href |-> href, text |-> <<>>]
TextLink(text) == [found |-> TRUE, href |-> <<>>, text |-> text]
DisplayName(text) == [found |-> TRUE, href |-> <<>>, text |-> text]

\* A comment block: its profile link, its display name, whether the text
\* of the comment is found, and whether reading the block raises an
\* exception other than NoSuchElementException (a stale element).
Block(link, display, text, stale) ==
    [link |-> link, display |-> display, text |-> text, stale |-> stale]

Blocks ==
    { Block(ProfileLink(<<"https://www.tiktok.com", "/@", "alice", "?", "lang=fr">>),
            NoElement, "present", FALSE),
      Block(ProfileLink(<<"https://www.tiktok.com", "/@", "soeurbonplan">>),
            DisplayName(excluded_username), "present", FALSE),
      Block(NoElement, DisplayName(OperatorTitleCase), "present", FALSE),
      Block(NoElement, DisplayName(OperatorUpperCase), "present", FALSE),
      Block(NoElement, DisplayName(OperatorPadded), "present", FALSE),
      Block(NoElement, DisplayName(OperatorWithPrefix), "present", FALSE),
      Block(NoElement, DisplayName(OperatorWithSuffix), "present", FALSE),
      Block(NoElement, DisplayName(OperatorWithoutRibbon), "present", FALSE),
      Block(ProfileLink(<<"https://www.tiktok.com", "/@", "soeurbonplan">>),
            NoElement, "present", FALSE),
      Block(TextLink(<<" ">> \o Bob), DisplayName(<<" ">>), "present", FALSE),
      Block(TextLink(OperatorTitleCase), NoElement, "present", FALSE),
      Block(NoElement, DisplayName(Alice), "absent", FALSE),
      Block(NoElement, DisplayName(Alice), "blank", FALSE),
      Block(NoElement, DisplayName(Bob), "present", TRUE),
      Block(NoElement, NoElement, "present", FALSE) }

\* scraper.py:202-226: the username of a block.
ResolveUsername(block) ==
    LET fromLink ==
            IF ~block.link.found THEN <<>>
            ELSE IF \E i \in 1..Len(block.link.href) : block.link.href[i] = "/@"
            THEN <<"@">> \o BeforeFirst(AfterLast(block.link.href, "/@"), "?")
            ELSE Strip(block.link.text)
        display_name == IF block.display.found THEN Strip(block.display.text) ELSE <<>>
    IN IF display_name # <<>> THEN display_name ELSE fromLink

\* An exclusion that compares the name as it is written.
IsExcludedCaseSensitive(username) ==
    Strip(username) = excluded_username

\* scraper.py:241
IsExcluded(username) ==
    Strip(Lower(username)) = Lower(excluded_username)

\* scraper.py:228-235: the stripped text of the comment's paragraph; a
\* paragraph that holds white space only gives the empty string.
CommentText(block) ==
    IF block.text = "blank" THEN "" ELSE "super video"

\* An extraction that gives up at the first block it cannot read.
ExtractStopAtError(blocks) ==
    <<>>

\* scraper.py:251-253: the exception of one block is logged and the loop
\* goes on with the blocks after it.
ExtractAfterError(blocks) ==
    blocks

\* scraper.py:199-253: the loop over the comment blocks.
RECURSIVE ExtractBlocks(_)
ExtractBlocks(blocks) ==
    IF blocks = <<>> THEN <<>>
    ELSE LET block == Head(blocks)
             username == ResolveUsername(block)
         IN IF block.stale THEN ExtractBlocks(ExtractAfterError(Tail(blocks)))
            ELSE IF block.text = "absent" THEN ExtractBlocks(Tail(blocks))
            ELSE IF IsExcluded(username) THEN ExtractBlocks(Tail(blocks))
            ELSE <<[username |-> username, comment_text |-> CommentText(block)]>>
                     \o ExtractBlocks(Tail(blocks))

\* scraper.py:185-259: find_elements raising gives the empty list.
_extract_comments(page, in_dom) ==
    IF page.find = "error" THEN <<>> ELSE ExtractBlocks(in_dom)

\* scraper.py:157-183: when the wait for the list container (or the
\* scrolling) fails, the error is logged and the page keeps the blocks it
\* had loaded; otherwise all blocks of the thread are loaded.
_scroll_to_load_all_comments(page) ==
    IF page.container_wait = "ok" THEN page.blocks ELSE Take(page.blocks, page.loaded)

\* scraper.py:57-93.  _extract_video_info catches every exception;
\* _open_comments_section catches the timeout of its wait only.
ScrapeVideo(page) ==
    IF page.nav = "error" THEN Raise("WebDriverException")
    ELSE IF page.item_wait = "timeout" THEN Raise("TimeoutException")
    ELSE IF page.open = "error" THEN Raise("ElementClickInterceptedException")
    ELSE Return(_extract_comments(page, _scroll_to_load_all_comments(page)))

\* A page: the blocks of its thread, how many of them are loaded before
\* any scrolling, and what each step of scrape_video meets.  A step that
\* is not reached has its first outcome.
Page(blocks, loaded, nav, item_wait, open, container_wait, find) ==
    [method |-> "scrape_video", blocks |-> blocks, loaded |-> loaded, nav |-> nav,
     item_wait |-> item_wait, open |-> open, container_wait |-> container_wait,
     find |-> find]

PagesOf(bs) ==
    {Page(bs, Len(bs), "error", "ok", "clicked", "ok", "ok"),
     Page(bs, Len(bs), "ok", "timeout", "clicked", "ok", "ok"),
     Page(bs, Len(bs), "ok", "ok", "error", "ok", "ok")}
    \cup {Page(bs, Len(bs), "ok", "ok", op, "ok", f) :
             op \in {"clicked", "timeout"}, f \in {"ok", "error"}}
    \cup {Page(bs, n, "ok", "ok", op, "timeout", f) :
             n \in 0..Len(bs), op \in {"clicked", "timeout"}, f \in {"ok", "error"}}


ExtractInit ==
    /\ scraperImported = FALSE
    /\ accounts = <<>> /\ nextAccountId = 1
    /\ comments = <<>>
    /\ nextCommentId = 1
    /\ scraper = "None"
    /\ accepted = <<>>
    /\ task = NoTask
    /\ last = [n |-> 0, op |-> "none", code |-> 0, arg |-> [id |-> 0]]
    /\ genIn = GenIdle
    /\ genOut = GenNotRun
    /\ \E bs \in SeqsUpTo(Blocks, MaxBlocks) : callIn \in PagesOf(bs)
    /\ callOut = NoCall

ScrapeVideoCall ==
    /\ callOut = NoCall
    /\ callOut' = ScrapeVideo(callIn)
    /\ UNCHANGED <<scraperImported, storeVars, scraper, accepted, task, last, genVars, callIn>>

ExtractNext == ScrapeVideoCall

SpecExtract == ExtractInit /\ [][ExtractNext]_vars


(***************************************************************************)
(* ai_handler.py: generate_single_response on one comment.                 *)
(***************************************************************************)
\* The completion has no choice (response.choices[0] raises IndexError).
ApiNoChoice == [kind |-> "nochoice", text |-> <<>>]

\* The longest user name generate_single_response is called with.
MaxNameLen == 84

\* ai_handler.py:250: the canned reply, built around the user name: the
\* characters of "Hello ", the name, the characters of
\* "! Merci pour ton message ".
SingleFallback(username) ==
    <<"H", "e", "l", "l", "o", " ">>
      \o username
      \o <<"!", " ", "M", "e", "r", "c", "i", " ", "p", "o", "u", "r", " ", "t", "o", "n", " ", "m", "e", "s", "s", "a", "g", "e", " ">>

\* ai_handler.py:207-246, the body of the try block.
SingleTry(api) ==
    IF api.kind = "error" THEN Raise("APIError")
    ELSE IF api.kind = "nochoice" THEN Raise("IndexError")
    ELSE IF api.kind = "none" THEN Raise("AttributeError")
    ELSE Return(CheckLength(Strip(api.text)))

\* An except clause that logs and raises the error again.
SingleExceptReraise(username, e) ==
    Raise(e)

\* ai_handler.py:248-250, except Exception
SingleExcept(username, e) ==
    Return(SingleFallback(username))

\* ai_handler.py:187-250
generate_single_response(username, api) ==
    LET r == SingleTry(api)
    IN IF r.tag = "raise" THEN SingleExcept(username, r.exc) ELSE r

\* The outcomes of the request; the text of a completion is a reply, bare
\* or with a space around it.
SingleApis ==
    {ApiError, ApiNoChoice, ApiNone}
    \cup {ApiText(pad \o TextOf(shape, n) \o pad) :
              pad \in {<<>>, <<" ">>}, shape \in TextShapes, n \in 0..MaxTextLen}

SingleInit ==
    /\ scraperImported = FALSE
    /\ accounts = <<>> /\ nextAccountId = 1
    /\ comments = <<>>
    /\ nextCommentId = 1
    /\ scraper = "None"
    /\ accepted = <<>>
    /\ task = NoTask
    /\ last = [n |-> 0, op |-> "none", code |-> 0, arg |-> [id |-> 0]]
    /\ genIn = GenIdle
    /\ genOut = GenNotRun
    /\ \E u \in {Alice, <<"@">> \o Bob} \cup {TextOf("letters", n) : n \in 0..MaxNameLen},
          a \in SingleApis :
          callIn = [method |-> "generate_single_response", username |-> u, api |-> a]
    /\ callOut = NoCall

GenerateSingleCall ==
    /\ callOut = NoCall
    /\ callOut' = generate_single_response(callIn.username, callIn.api)
    /\ UNCHANGED <<scraperImported, storeVars, scraper, accepted, task, last, genVars, callIn>>

SpecSingle == SingleInit /\ [][GenerateSingleCall]_vars


(***************************************************************************)
(* scraper.py: the loop of _scroll_to_load_all_comments on one page.       *)
(*                                                                         *)
(* The extent of the comment container is what the page makes of it: it    *)
(* grows or not at each of the first measurements (growth), and from then  *)
(* on it is either stable or grows at every measurement (tail).            *)
(***************************************************************************)
MaxGrowth == 3
MaxScrolls == 6

\* How much the extent has grown at the i-th measurement of the loop.
Increment(page, i) ==
    IF i <= Len(page.growth) THEN page.growth[i]
    ELSE IF page.tail = "growing" THEN 1 ELSE 0

\* scrollHeight at the i-th measurement of the loop (0: before the loop).
RECURSIVE ScrollHeight(_, _)
ScrollHeight(page, i) ==
    IF i = 0 THEN 1 ELSE ScrollHeight(page, i - 1) + Increment(page, i)

\* A loop that also stops after a number of iterations.
StopAtCap(new_height, last_height, n) ==
    new_height = last_height \/ n >= MaxScrolls - 1

\* scraper.py:175-176: the test that leaves the loop.
ShouldStop(new_height, last_height, n) ==
    new_height = last_height

ScrollPages ==
    {[method |-> "_scroll_to_load_all_comments", container_wait |-> w, growth |-> g,
      tail |-> t, error_at |-> e] :
        w \in {"ok", "timeout"}, g \in SeqsUpTo({0, 1}, MaxGrowth),
        t \in {"stable", "growing"}, e \in 0..(MaxGrowth + 1)}

ScrollInit ==
    /\ scraperImported = FALSE
    /\ accounts = <<>> /\ nextAccountId = 1
    /\ comments = <<>>
    /\ nextCommentId = 1
    /\ scraper = "None"
    /\ accepted = <<>>
    /\ task = NoTask
    /\ last = [n |-> 0, op |-> "none", code |-> 0, arg |-> [id |-> 0]]
    /\ genIn = GenIdle
    /\ genOut = GenNotRun
    /\ callIn \in ScrollPages
    /\ callOut = NoCall

\* scraper.py:160-165: the wait for the container and the first measurement.
ScrollStart ==
    /\ callOut = NoCall
    /\ callOut' = IF callIn.container_wait = "ok"
                  THEN [method |-> callIn.method, pc |-> "loop", n |-> 0,
                        last_height |-> ScrollHeight(callIn, 0)]
                  ELSE [method |-> callIn.method, pc |-> "failed", n |-> 0, last_height |-> 0]
    /\ UNCHANGED <<scraperImported, storeVars, scraper, accepted, task, last, genVars, callIn>>

\* scraper.py:167-178: one iteration: scroll, sleep, measure, compare.  A
\* page call that raises (error_at) ends the function in its except block
\* (182-183).  The model follows the loop for MaxScrolls iterations.
ScrollIteration ==
    /\ callOut # NoCall /\ callOut.pc = "loop"
    /\ callOut.n < MaxScrolls
    /\ LET n == callOut.n + 1
           new_height == ScrollHeight(callIn, n)
       IN callOut' =
            IF callIn.error_at = n
            THEN [callOut EXCEPT !.pc = "failed", !.n = n]
            ELSE IF ShouldStop(new_height, callOut.last_height, n)
            THEN [callOut EXCEPT !.pc = "done", !.n = n]
            ELSE [callOut EXCEPT !.n = n, !.last_height = new_height]
    /\ UNCHANGED <<scraperImported, storeVars, scraper, accepted, task, last, genVars, callIn>>

ScrollNext == ScrollStart \/ ScrollIteration

\* The function runs on, one statement after the other: time.sleep
\* returns and every page call returns or raises.
SpecScroll == ScrollInit /\ [][ScrollNext]_vars /\ WF_vars(ScrollNext)


(***************************************************************************)
(* scraper.py: TikTokScraper.reply_to_comment on one page.                 *)
(***************************************************************************)
MaxReplyBlocks == 2
MaxButtons == 3

\* s in t, for strings as sequences of characters
IsSubstring(s, t) ==
    \E i \in 0..(Len(t) - Len(s)) : SubSeq(t, i + 1, i + Len(s)) = s

\* s.replace(ch, '')
RemoveAll(s, ch) ==
    SelectSeq(s, LAMBDA c : c # ch)

\* The identities stored with a comment: a handle, a display name with
\* the marker inside, a display name without it.
StoredIdentities == {<<"@", "a", "b">>, <<"a", "@", "b">>, <<"z">>}

\* The profile link of a block: its text and its href.  A link without
\* href has the empty href: get_attribute gives None, the test raises
\* unless the text matched, and the block is passed over either way.
ReplyLink(text, href) == [found |-> TRUE, text |-> text, href |-> href]

ReplyBlocks ==
    { ReplyLink(<<"a", "b">>, <<"/", "@", "a", "b">>),
      ReplyLink(<<"a", "@", "b">>, <<"/", "@", "x">>),
      ReplyLink(<<"x", "@", "a", "b", "y">>, <<"/", "@", "q">>),
      ReplyLink(<<"z", "z">>, <<>>),
      NoElement }

\* scraper.py:284-290: the test of one block; a link that is not found
\* raises and the block is passed over.
MatchesTarget(link, username) ==
    /\ link.found
    /\ \/ IsSubstring(username, link.text)
       \/ IsSubstring(RemoveAll(username, "@"), link.href)

\* scraper.py:282-290: the index of the first block that matches, 0 for None.
ReplyTarget(blocks, username) ==
    LET hits == {k \in 1..Len(blocks) : MatchesTarget(blocks[k], username)}
    IN IF hits = {} THEN 0 ELSE CHOOSE k \in hits : \A j \in hits : k <= j

\* A submission that uses the only enabled button when there is just one.
SubmitAnyButton(n) ==
    IF n >= 2 THEN 2 ELSE n

\* scraper.py:345-353: the button that is clicked, of n enabled ones in
\* page order; 0 when the function raises instead.
SubmitButton(n) ==
    IF n >= 2 THEN 2 ELSE 0

ReplyOutcome(tag, exc, target, reply_clicked, typed, submitted) ==
    [method |-> "reply_to_comment", tag |-> tag, exc |-> exc, target |-> target,
     reply_clicked |-> reply_clicked, typed |-> typed, submitted |-> submitted]

\* scraper.py:261-357: the outcome and what was done on the page.
reply_to_comment(page, username, reply_text) ==
    LET target == ReplyTarget(page.blocks, username)
        button == SubmitButton(page.buttons)
    IN IF page.nav = "error"
       THEN ReplyOutcome("raise", "WebDriverException", 0, FALSE, "", 0)
       ELSE IF target = 0
       THEN ReplyOutcome("raise", "Exception", 0, FALSE, "", 0)
       ELSE IF page.reply_button = "absent"
       THEN ReplyOutcome("raise", "NoSuchElementException", target, FALSE, "", 0)
       ELSE IF page.reply_input = "absent"
       THEN ReplyOutcome("raise", "Exception", target, TRUE, "", 0)
       ELSE IF button = 0
       THEN ReplyOutcome("raise", "Exception", target, TRUE, reply_text, 0)
       ELSE ReplyOutcome("return", "none", target, TRUE, reply_text, button)

ReplyInit ==
    /\ scraperImported = FALSE
    /\ accounts = <<>> /\ nextAccountId = 1
    /\ comments = <<>>
    /\ nextCommentId = 1
    /\ scraper = "None"
    /\ accepted = <<>>
    /\ task = NoTask
    /\ last = [n |-> 0, op |-> "none", code |-> 0, arg |-> [id |-> 0]]
    /\ genIn = GenIdle
    /\ genOut = GenNotRun
    /\ \E bs \in SeqsUpTo(ReplyBlocks, MaxReplyBlocks), u \in StoredIdentities,
          nav \in {"ok", "error"}, rb \in {"found", "absent"}, ri \in {"found", "absent"},
          n \in 0..MaxButtons :
          callIn = [method |-> "reply_to_comment", blocks |-> bs, username |-> u,
                    reply_text |-> "r1", nav |-> nav, reply_button |-> rb,
                    reply_input |-> ri, buttons |-> n]
    /\ callOut = NoCall

ReplyCall ==
    /\ callOut = NoCall
    /\ callOut' = reply_to_comment(callIn, callIn.username, callIn.reply_text)
    /\ UNCHANGED <<scraperImported, storeVars, scraper, accepted, task, last, genVars, callIn>>

SpecReply == ReplyInit /\ [][ReplyCall]_vars


(***************************************************************************)
(* Properties.                                                             *)
(***************************************************************************)
IsRequest(op) == last'.n = last.n + 1 /\ last'.op = op

Placeholders(n) == [i \in 1..n |-> PLACEHOLDER]

\* C1: a publish request naming an existing comment that is not validated
\* is answered with an error, adds no background task, starts none, and
\* changes no comment row.
C1_PublishRejectedAsAWhole ==
    [][(/\ IsRequest("publish")
        /\ \E c \in last'.arg.ids \cap DOMAIN comments : comments[c].status # "validated")
       => (/\ last'.code # 200
           /\ accepted' = accepted
           /\ task' = task
           /\ comments' = comments)]_vars

\* C1 witness: a request naming two existing comments, one validated and
\* one not, was answered with an error.
C1_Witness ==
    /\ last.op = "publish"
    /\ last.code = 500
    /\ Cardinality(DOMAIN last.arg.pre) = 2
    /\ Cardinality({c \in DOMAIN last.arg.pre : last.arg.pre[c] # "validated"}) = 1

\* C2: whenever the publication task is about to call the publish agent on
\* a comment and write published or failed to it, the comment's status in
\* the store is validated.
C2_PublishedOnlyFromValidated ==
    (task.kind = "publish" /\ task.pc = "loop" /\ task.rows # <<>>)
        => (/\ Head(task.rows).id \in DOMAIN comments
            /\ comments[Head(task.rows).id].status = "validated")

Ran == genOut.tag # "not run"

Undecodable ==
    /\ genIn.comments_data # <<>>
    /\ genIn.api.kind = "text"
    /\ json_loads(CleanText(genIn.api.text)).tag = "raise"

\* C3 as stated: when the returned text cannot be decoded as JSON,
\* generate_batch_responses raises the decode failure to its caller.
C3_DecodeFailurePropagates ==
    (Ran /\ Undecodable) => (genOut.tag = "raise" /\ genOut.exc = "JSONDecodeError")

\* C3 amended: when the returned text cannot be decoded as JSON,
\* _parse_json_response raises the decode failure, and
\* generate_batch_responses catches it and returns one placeholder reply
\* per comment, as for a failure of the completion request.
C3_DecodeFailureDegrades ==
    (Ran /\ Undecodable)
        => (/\ _parse_json_response(genIn.api.text) = Raise("JSONDecodeError")
            /\ genOut = Return(Placeholders(Len(genIn.comments_data))))

\* C3 witness: a batch of two comments answered with undecodable text.
C3_Witness ==
    /\ Ran /\ Undecodable
    /\ Len(genIn.comments_data) = 2
    /\ genIn.body = "garbage" /\ genIn.wrapper = "bare"
    /\ genOut.tag = "return"

\* C4: when the publish agent failed on a comment of an accepted request,
\* at the end of the task that comment is failed and every other comment
\* of the request on which the agent succeeds is published.
C4_PublishIndependent ==
    (/\ task.kind = "publish" /\ task.pc = "finally"
     /\ \E c \in task.fetched : c \notin task.okset)
        => \A c \in task.fetched :
              /\ c \in DOMAIN comments
              /\ comments[c].status = IF c \in task.okset THEN "published" ELSE "failed"

\* C4 witness: the task ends after the agent failed on the first of two
\* comments and succeeded on the second.
C4_Witness ==
    /\ task.kind = "publish" /\ task.pc = "finally"
    /\ task.fetched = {1, 2} /\ task.okset = {2}
    /\ comments[1].status = "failed" /\ comments[2].status = "published"

RequestFailed ==
    /\ genIn.comments_data # <<>>
    /\ BatchTry(genIn.comments_data, genIn.api).tag = "raise"
    /\ BatchTry(genIn.comments_data, genIn.api).exc # "JSONDecodeError"

\* C5: for a batch of N > 0 comments, when the completion request fails
\* (any failure other than a decode failure), the result is exactly N
\* replies, each the fixed placeholder.
C5_FailureGivesNPlaceholders ==
    (Ran /\ RequestFailed)
        => (/\ genOut.tag = "return"
            /\ Len(genOut.val) = Len(genIn.comments_data)
            /\ \A i \in 1..Len(genOut.val) : genOut.val[i] = PLACEHOLDER)

\* C5 witness: the completion request itself failed for a batch of two.
C5_Witness ==
    /\ Ran /\ genIn.api.kind = "error"
    /\ Len(genIn.comments_data) = 2
    /\ genOut = Return(<<PLACEHOLDER, PLACEHOLDER>>)

\* The model returned a well-formed JSON object, bare or inside a code
\* fence, whose responses array holds objects that each carry a reply.
WellFormedResponse ==
    /\ genIn.comments_data # <<>>
    /\ genIn.api.kind = "text"
    /\ genIn.body = "doc"
    /\ genIn.wrapper \in {"bare", "json_fence", "plain_fence"}
    /\ genIn.doc.kind = "object" /\ genIn.doc.key = "array"
    /\ \A i \in 1..Len(genIn.doc.responses) :
          genIn.doc.responses[i].kind = "object" /\ genIn.doc.responses[i].has

\* C6: for a batch of N > 0 comments and a well-formed response whose
\* array has M items, the result has M replies, the k-th being the reply
\* of the k-th item, whatever M is with respect to N.
C6_RepliesAreTheArray ==
    (Ran /\ WellFormedResponse)
        => (/\ genOut.tag = "return"
            /\ Len(genOut.val) = Len(genIn.doc.responses)
            /\ \A k \in 1..Len(genOut.val) : genOut.val[k] = genIn.doc.responses[k].reply)

\* The scenario of C7: the browser starts, the page yields two comments of
\* distinct commenters, the model answers two replies in well-formed JSON.
TwoCommentScenario ==
    /\ task.kind = "scrape"
    /\ task.browser = "starts"
    /\ task.page = Return(PageComments(2))
    /\ task.api = ApiText(Serialize(ObjDoc(PipelineReplies(2))))

\* C7: when the ingestion task of that scenario reaches its end, the two
\* comments are the last two rows of the store, pending, each with the
\* reply the model gave for it, in order.
C7_EndToEndIngestion ==
    (TwoCommentScenario /\ task.pc = "finally")
        => (/\ nextCommentId >= 3
            /\ \A k \in 1..2 :
                  LET c == nextCommentId - 3 + k
                  IN /\ c \in DOMAIN comments
                     /\ comments[c].status = "pending"
                     /\ comments[c].username = Commenters[k]
                     /\ comments[c].ai_response = PipelineReplies(2)[k].reply)

\* C8: a moderation call on an existing comment, whatever its status, is
\* answered with success; validate leaves it validated, reject rejected,
\* modify with a text validated with that text as its reply.
C8_ModerationIgnoresStatus ==
    [][(IsRequest("moderate") /\ last'.arg.id \in DOMAIN comments)
       => LET c == last'.arg.id
          IN /\ last'.code = 200
             /\ c \in DOMAIN comments'
             /\ last'.arg.action = "validate" => comments'[c].status = "validated"
             /\ last'.arg.action = "reject" => comments'[c].status = "rejected"
             /\ (last'.arg.action = "modify" /\ Truthy(last'.arg.text))
                   => (/\ comments'[c].status = "validated"
                       /\ comments'[c].ai_response = last'.arg.text)]_vars

\* C8 witness: a published comment was modified and is validated again,
\* with the new text.
C8_Witness ==
    /\ last.op = "moderate" /\ last.code = 200
    /\ last.arg.action = "modify" /\ last.arg.text = "m1"
    /\ last.arg.pre = "published"
    /\ comments[last.arg.id].status = "validated"
    /\ comments[last.arg.id].ai_response = "m1"

\* C9: every step that changes the reply text of a comment is a modify of
\* that comment and leaves it validated with the text of the request, and
\* every modify with a text writes text and status in that one step: no
\* state holds the new text without the new status.
C9_ModifyAtomic ==
    [][/\ \A c \in DOMAIN comments \cap DOMAIN comments' :
             comments'[c].ai_response # comments[c].ai_response
                => (/\ IsRequest("moderate")
                    /\ last'.arg.id = c /\ last'.arg.action = "modify"
                    /\ comments'[c].ai_response = last'.arg.text
                    /\ comments'[c].status = "validated")
       /\ (/\ IsRequest("moderate")
           /\ last'.arg.id \in DOMAIN comments
           /\ last'.arg.action = "modify" /\ Truthy(last'.arg.text))
             => (/\ comments'[last'.arg.id].ai_response = last'.arg.text
                 /\ comments'[last'.arg.id].status = "validated")]_vars

\* C9 witness: a pending comment was modified: it holds the new text and
\* the status validated.
C9_Witness ==
    /\ last.op = "moderate" /\ last.code = 200
    /\ last.arg.action = "modify" /\ last.arg.text = "m1"
    /\ last.arg.pre = "pending"
    /\ comments[last.arg.id].status = "validated"
    /\ comments[last.arg.id].ai_response = "m1"

\* C10: every comment row's status is one of the five statuses, and every
\* row that appears in the store appears as pending.
C10_StatusClosedAndInitial ==
    /\ [](\A c \in DOMAIN comments : comments[c].status \in Statuses)
    /\ [][\A c \in DOMAIN comments' \ DOMAIN comments :
             comments'[c].status = "pending"]_vars

\* C10 witness: the ingestion task has just saved its first row, which is
\* pending.
C10_Witness ==
    /\ task.kind = "scrape" /\ task.pc = "save" /\ task.k = 2
    /\ (nextCommentId - 1) \in DOMAIN comments
    /\ comments[nextCommentId - 1].status = "pending"

InboundStep == IsRequest("scrape") \/ IsRequest("publish")

\* C11 as stated: every scrape request and every publish request is answered
\* "accepted" (200): no synchronous answer reports a failure.
C11_AlwaysAccepted ==
    [][InboundStep => last'.code = 200]_vars

\* C11 amended: a scrape request is answered "accepted" exactly when its
\* account exists and is active, a publish request exactly when every named
\* comment that exists is validated, and otherwise with an error; no step
\* of a background task changes an answer, so a failure of the background
\* work is never reported to the caller.
C11_AcceptedUnlessCheckFails ==
    [][/\ IsRequest("scrape") =>
             (last'.code = 200 <=>
                 /\ last'.arg.account_id \in DOMAIN accounts
                 /\ accounts[last'.arg.account_id].active)
       /\ IsRequest("publish") =>
             (last'.code = 200 <=>
                 \A c \in last'.arg.ids \cap DOMAIN comments :
                     comments[c].status = "validated")
       /\ InboundStep => last'.code \in {200, 500}
       /\ last' # last => last'.n = last.n + 1 /\ task' = task
       /\ task' # task => last' = last]_vars

\* C11 witness: a publication task has ended after the agent failed on a
\* comment, and the answer to its request still says "accepted".
C11_Witness ==
    /\ task.kind = "publish" /\ task.pc = "done"
    /\ last.op = "publish" /\ last.code = 200
    /\ \E c \in DOMAIN comments : c \in last.arg.ids /\ comments[c].status = "failed"

\* C12: the step that acknowledges a scrape or publish request runs no step
\* of a background task: it leaves the running task, the session and the
\* comments as they are and only queues the task; a task enters the queue
\* only in the step that answers its request "accepted"; and a task that
\* starts is taken from the queue, so its acknowledgement came before.
C12_AckBeforeWork ==
    [][/\ InboundStep =>
             /\ task' = task /\ scraper' = scraper
             /\ comments' = comments /\ nextCommentId' = nextCommentId
             /\ last'.code = 200 =>
                   /\ Len(accepted') = Len(accepted) + 1
                   /\ accepted'[Len(accepted')].pc = "accepted"
                   /\ accepted'[Len(accepted')].kind = last'.op
       /\ Len(accepted') > Len(accepted) => InboundStep /\ last'.code = 200
       /\ (task'.pc = "init" /\ task.pc # "init") =>
             /\ last' = last
             /\ \E i \in 1..Len(accepted) :
                   /\ accepted[i].pc = "accepted"
                   /\ accepted[i].kind = task'.kind
                   /\ accepted[i].video_url = task'.video_url
                   /\ accepted[i].comment_ids = task'.comment_ids
                   /\ accepted' = Without(accepted, i)]_vars

\* C12 witness: the ingestion task of an acknowledged scrape request is
\* saving rows, after the acknowledgement.
C12_Witness ==
    /\ last.op = "scrape" /\ last.code = 200
    /\ task.kind = "scrape" /\ task.pc = "save" /\ task.k = 2

\* C13: whenever no processing cycle is running the session handle is empty,
\* and whenever a cycle is past its start and before its teardown the
\* session exists.
C13_SessionPerCycle ==
    /\ task.pc \in {"none", "done"} => scraper = "None"
    /\ task.pc \in {"scrape", "generate", "save", "fetch", "loop"} => scraper = "open"

\* C13 witness: a publication cycle that published a comment has ended and
\* the handle is empty again.
C13_Witness ==
    /\ task.kind = "publish" /\ task.pc = "done"
    /\ scraper = "None"
    /\ \E c \in DOMAIN comments : comments[c].status = "published"

\* The ingestion task has run its save loop to the end: no step failed.
IngestionCompleted ==
    task.kind = "scrape" /\ task.pc = "finally" /\ task.k >= 1 /\ ~task.save_error

\* C14: when an ingestion cycle has run to completion without error, the
\* store holds one new row per extracted comment: N extracted comments
\* gave N new rows.
C14_OneRowPerComment ==
    IngestionCompleted =>
        nextCommentId - task.first = Len(task.comments_data)

\* C20: when an ingestion cycle has run to completion, the rows it created
\* are as many as the shorter of the comment list and the reply list; the
\* k-th of them carries the k-th comment's identity and text and the k-th
\* reply; trailing comments and surplus replies left no row.
C20_PairedByPosition ==
    IngestionCompleted =>
        LET n == IF Len(task.comments_data) <= Len(task.ai_responses)
                 THEN Len(task.comments_data) ELSE Len(task.ai_responses)
        IN /\ nextCommentId = task.first + n
           /\ \A c \in DOMAIN comments : c < nextCommentId
           /\ \A k \in 1..n :
                 LET c == task.first + k - 1
                 IN /\ c \in DOMAIN comments
                    /\ comments[c].username = task.comments_data[k].username
                    /\ comments[c].comment_text = task.comments_data[k].comment_text
                    /\ comments[c].ai_response = task.ai_responses[k]
                    /\ comments[c].video_url = task.video_url

\* C20 witness: two comments and three replies: two rows, the third reply
\* is discarded.
C20_Witness ==
    /\ IngestionCompleted
    /\ Len(task.comments_data) = 2 /\ Len(task.ai_responses) = 3
    /\ nextCommentId = task.first + 2

CycleRunning == task.pc \notin {"none", "done"}

\* C19 as stated: nothing serialises the cycles, so they overlap: whenever a
\* cycle is running and another one is queued, the queued one can start,
\* and it then shares the session the running cycle will tear down.
C19_CyclesOverlap ==
    (CycleRunning /\ accepted # <<>>) =>
        ENABLED (\E i \in 1..Len(accepted) : start_scraping(i) \/ start_publishing(i))

\* C19 amended: the session is one shared handle without a lock, but the
\* cycles never overlap: a cycle starts only when no cycle is running, the
\* session is created only by the running cycle's first step, and it is
\* closed and cleared only by the running cycle's own teardown, its last
\* step.
C19_CyclesRunOneAtATime ==
    [][/\ (task'.pc = "init" /\ task.pc # "init") => task.pc \in {"none", "done"}
       /\ (scraper = "None" /\ scraper' # "None") => task.pc = "init" /\ task'.kind = task.kind
       /\ (scraper # "None" /\ scraper' = "None") =>
             task.pc = "finally" /\ task'.pc = "done" /\ task'.kind = task.kind
       /\ (CycleRunning /\ task' # task) => task'.kind = task.kind]_vars

\* C19 witness: a cycle is using the session while another accepted cycle
\* waits in the queue.
C19_Witness ==
    /\ task.pc \in {"save", "loop"} /\ scraper = "open"
    /\ accepted # <<>>

\* C18: right after delete_account(a), the account a does not exist, no
\* comment row is owned by a, the comments of the other accounts are all
\* there and unchanged, and so are the other accounts.
C18_DeleteCascades ==
    [][IsRequest("delete_account") =>
         LET a == last'.arg.id
         IN /\ a \notin DOMAIN accounts'
            /\ \A c \in DOMAIN comments' : comments'[c].account_id # a
            /\ \A c \in DOMAIN comments :
                  comments[c].account_id # a =>
                      c \in DOMAIN comments' /\ comments'[c] = comments[c]
            /\ DOMAIN comments' \subseteq DOMAIN comments
            /\ \A b \in DOMAIN accounts :
                  b # a => b \in DOMAIN accounts' /\ accounts'[b] = accounts[b]
            /\ DOMAIN accounts' \subseteq DOMAIN accounts]_vars

\* C18 witness: account 1 was deleted with its comment, and account 2 still
\* holds its own comment.
C18_Witness ==
    /\ last.op = "delete_account" /\ last.arg.id = 1 /\ last.n = 1
    /\ nextCommentId = 3
    /\ DOMAIN accounts = {2}
    /\ \E c \in 1..2 : DOMAIN comments = {c} /\ comments[c].account_id = 2

\* C15: the length enforcement returns a reply of at most 114 characters
\* unchanged; of a longer reply it returns exactly 114 characters, the
\* reply's first 111 followed by the marker "..."; and applying
\* truncate_response to its own result changes nothing.
C15_TruncateExactAndIdempotent ==
    callOut # NoCall =>
        /\ Len(callIn.text) <= 114 => callOut.first = callIn.text
        /\ Len(callIn.text) > 114 =>
              /\ Len(callOut.first) = 114
              /\ SubSeq(callOut.first, 112, 114) = <<".", ".", ".">>
              /\ SubSeq(callOut.first, 1, 111) = SubSeq(callIn.text, 1, 111)
        /\ callOut.n = 2 => callOut.val = callOut.first

\* C15 witness: a reply of 117 letters was truncated, and the result was
\* truncated again.
C15_Witness ==
    /\ callOut # NoCall /\ callOut.method = "truncate_response" /\ callOut.n = 2
    /\ Len(callIn.text) = 117 /\ callIn.text[117] # "."
    /\ Len(callOut.val) = 114

\* Two names that differ at most in the case of their letters.
EqualUpToCase(a, b) ==
    /\ Len(a) = Len(b)
    /\ \A i \in 1..Len(a) :
          \/ a[i] = b[i]
          \/ \E j \in 1..Len(UpperChars) : {a[i], b[i]} = {UpperChars[j], LowerChars[j]}

\* The blocks in the page when the items are read, and those among them
\* that are read without an error.
InDom ==
    IF callIn.container_wait = "ok" THEN callIn.blocks
    ELSE SubSeq(callIn.blocks, 1, callIn.loaded)

Readable(block) == ~block.stale /\ block.text # "absent"

Extracted == callOut # NoCall /\ callOut.tag = "return" /\ callIn.find = "ok"

Returned == [i \in 1..Len(callOut.val) |-> callOut.val[i].username]

\* The names, in page order, of the readable blocks that are not the
\* operator's.
NamesToReturn(blocks) ==
    LET Keep(b) == Readable(b) /\ ~EqualUpToCase(ResolveUsername(b), excluded_username)
        kept == SelectSeq(blocks, Keep)
    IN [i \in 1..Len(kept) |-> ResolveUsername(kept[i])]

\* C16: of the blocks read without error, one is returned if and only if
\* its resolved name differs from the operator's name by more than letter
\* case; no returned item has the operator's name.
C16_SelfFilterExactUpToCase ==
    Extracted =>
        /\ \A i \in 1..Len(Returned) : ~EqualUpToCase(Returned[i], excluded_username)
        /\ \A k \in 1..Len(InDom) :
              Readable(InDom[k]) =>
                  ((\E i \in 1..Len(Returned) : Returned[i] = ResolveUsername(InDom[k]))
                     <=> ~EqualUpToCase(ResolveUsername(InDom[k]), excluded_username))

\* C16 witness: a page with the operator's name in upper case and then a
\* name that contains the operator's name: only the second is returned.
C16_Witness ==
    /\ Extracted /\ callIn.container_wait = "ok"
    /\ Len(callIn.blocks) = 2
    /\ callIn.blocks[1].display.text = OperatorUpperCase
    /\ callIn.blocks[2].display.text = OperatorWithPrefix
    /\ Returned = <<OperatorWithPrefix>>

\* C17 as stated: an error of the navigation, of the wait for the first
\* comment item or of the wait for the comment list container makes
\* scrape_video fail; otherwise every item of the page that is read
\* without error is returned, in page order.
C17_AnyWaitErrorAborts ==
    callOut # NoCall =>
        /\ (\/ callIn.nav = "error"
            \/ callIn.item_wait = "timeout"
            \/ callIn.container_wait = "timeout") => callOut.tag = "raise"
        /\ Extracted => Returned = NamesToReturn(callIn.blocks)

\* C17 amended: an error of the navigation or of the initial wait for the
\* first comment item makes scrape_video fail, and no list is returned; a
\* failure of the later wait for the comment list container does not: the
\* extraction goes on with the blocks loaded so far; an item that cannot
\* be read is dropped alone, the other loaded items are returned in page
\* order.
C17_InitialWaitErrorAborts ==
    callOut # NoCall =>
        /\ (callIn.nav = "error" \/ callIn.item_wait = "timeout") => callOut.tag = "raise"
        /\ (callIn.nav = "ok" /\ callIn.item_wait = "ok" /\ callIn.open # "error")
              => callOut.tag = "return"
        /\ Extracted => Returned = NamesToReturn(InDom)

\* C17 witness: the first block of the page is stale and the second is
\* read: the second alone is returned.
C17_Witness ==
    /\ Extracted /\ callIn.container_wait = "ok"
    /\ Len(callIn.blocks) = 2
    /\ callIn.blocks[1].stale /\ Readable(callIn.blocks[2])
    /\ Returned = <<ResolveUsername(callIn.blocks[2])>>
    /\ Returned # <<excluded_username>> /\ Returned[1] = <<"@", "alice">>

\* C21: when saving the k-th row of a batch fails, the k-1 rows saved
\* before it are in the store, no later row of the batch is, and nothing
\* the task does afterwards changes the comments.
C21_PartialBatchStaysCommitted ==
    /\ [](task.kind = "scrape" /\ task.pc = "finally" /\ task.save_error =>
            /\ nextCommentId = task.first + task.k - 1
            /\ \A c \in DOMAIN comments : c < nextCommentId
            /\ \A j \in 1..(task.k - 1) :
                  /\ task.first + j - 1 \in DOMAIN comments
                  /\ comments[task.first + j - 1].username = task.comments_data[j].username
                  /\ comments[task.first + j - 1].ai_response = task.ai_responses[j])
    /\ [][task.kind = "scrape" /\ task.pc = "finally" => comments' = comments]_vars

\* C21 witness: of a batch of two comments with two replies the first row
\* was saved and saving the second failed.
C21_Witness ==
    /\ task.kind = "scrape" /\ task.pc = "finally" /\ task.save_error
    /\ Len(task.comments_data) = 2 /\ Len(task.ai_responses) = 2
    /\ task.k = 2
    /\ task.first \in DOMAIN comments

\* C23: the comments a publication task still has to attempt are all
\* different; every attempt removes its comment from them for good,
\* whether it failed or not, and a failed attempt marks the comment failed
\* and leaves the task in its loop.
C23_AttemptedOnce ==
    /\ [](task.pc = "loop" =>
            \A i, j \in 1..Len(task.rows) : i # j => task.rows[i].id # task.rows[j].id)
    /\ [][(task.pc = "loop" /\ task.rows # <<>>) =>
             LET c == Head(task.rows).id
             IN /\ task'.pc = "loop"
                /\ task'.rows = Tail(task.rows)
                /\ \A i \in 1..Len(task'.rows) : task'.rows[i].id # c
                /\ (c \notin task.okset /\ c \in DOMAIN comments')
                      => comments'[c].status = "failed"]_vars

\* C23 witness: the agent failed on the first of two comments, which is
\* marked failed, and the task is about to attempt the second.
C23_Witness ==
    /\ task.kind = "publish" /\ task.pc = "loop"
    /\ Cardinality(task.fetched) = 2 /\ Len(task.rows) = 1
    /\ \E c \in task.fetched :
          /\ c # task.rows[1].id /\ c \notin task.okset
          /\ comments[c].status = "failed"

\* C24: no step of an ingestion task removes or changes a comment row that
\* exists.
C24_IngestionOnlyInserts ==
    [][(task.kind = "scrape" /\ task.pc \notin {"none", "done"}) =>
          \A c \in DOMAIN comments :
              c \in DOMAIN comments' /\ comments'[c] = comments[c]]_vars

\* C24 witness: the same video was scraped again for the same account: the
\* first row, validated in between, is as it was, and the commenter has a
\* second, pending row.
C24_Witness ==
    /\ task.kind = "scrape" /\ task.pc = "finally" /\ task.first = 2
    /\ DOMAIN comments = {1, 2}
    /\ comments[1].status = "validated" /\ comments[2].status = "pending"
    /\ comments[2].username = comments[1].username
    /\ comments[2].video_url = comments[1].video_url
    /\ comments[2].account_id = comments[1].account_id

\* C30: the reply of a comment that is published is never submitted to the
\* page again: no publication task posts a comment whose status is
\* published.
C30_PostedAtMostOnce ==
    [][(/\ task.kind = "publish" /\ task.pc = "loop" /\ task.rows # <<>>
        /\ Head(task.rows).id \in task.okset
        /\ Head(task.rows).id \in DOMAIN comments)
          => comments[Head(task.rows).id].status # "published"]_vars

C27_NoEmptyBody ==
    Extracted => \A i \in 1..Len(callOut.val) : callOut.val[i].comment_text # ""

\* A page whose extent does not grow at some measurement.
Stabilises(page) ==
    page.tail = "stable" \/ \E i \in 1..Len(page.growth) : page.growth[i] = 0

GrowsAlways(page) == ~Stabilises(page)

\* C22: the scroll loop leaves at the first measurement that equals the
\* one before it and at no other; it has no iteration cap: on a page whose
\* extent grows at every measurement it never leaves, and on a page whose
\* extent stops growing at some measurement it eventually leaves (page
\* calls that raise aside).
C22_ScrollUntilFixedPoint ==
    /\ [](callOut # NoCall =>
            /\ callOut.pc = "done" =>
                  /\ callOut.n >= 1
                  /\ ScrollHeight(callIn, callOut.n) = ScrollHeight(callIn, callOut.n - 1)
            /\ callOut.pc \in {"done", "loop"} =>
                  \A j \in 1..(callOut.n - 1) :
                      ScrollHeight(callIn, j) # ScrollHeight(callIn, j - 1)
            /\ callOut.pc = "loop" /\ callOut.n >= 1 =>
                  ScrollHeight(callIn, callOut.n) # ScrollHeight(callIn, callOut.n - 1)
            /\ GrowsAlways(callIn) => callOut.pc # "done")
    /\ (callOut # NoCall /\ callOut.pc = "loop" /\ Stabilises(callIn) /\ callIn.error_at = 0)
          ~> (callOut # NoCall /\ callOut.pc = "done")

\* C22 witness: on a page that grows at every measurement the loop is
\* still running after MaxScrolls iterations.
C22_Witness ==
    /\ callOut # NoCall /\ callOut.pc = "loop"
    /\ GrowsAlways(callIn)
    /\ callOut.n = MaxScrolls
    /\ callOut.last_height = 1 + MaxScrolls

\* The identity without a marker at its start.
StripLeadingMarker(username) ==
    IF username # <<>> /\ Head(username) = "@" THEN Tail(username) ELSE username

MatchesAsStated(link, username) ==
    /\ link.found
    /\ \/ IsSubstring(username, link.text)
       \/ IsSubstring(StripLeadingMarker(username), link.href)

TargetAsStated(blocks, username) ==
    LET hits == {k \in 1..Len(blocks) : MatchesAsStated(blocks[k], username)}
    IN IF hits = {} THEN 0 ELSE CHOOSE k \in hits : \A j \in hits : k <= j

Replied == callOut # NoCall /\ callIn.nav = "ok"

\* C26: the target is the first block, in page order, whose link text
\* contains the stored identity or whose href contains the stored identity
\* without its leading marker; when there is none the function raises
\* before it clicks or types.
C26_TargetByContainment ==
    Replied =>
        /\ callOut.target = TargetAsStated(callIn.blocks, callIn.username)
        /\ TargetAsStated(callIn.blocks, callIn.username) = 0 =>
              /\ callOut.tag = "raise"
              /\ ~callOut.reply_clicked /\ callOut.typed = "" /\ callOut.submitted = 0

\* C28: generate_single_response always returns: the checked text of the
\* completion, or the canned reply when the request or the reading of its
\* result failed.
C28_SingleNeverRaises ==
    callOut # NoCall =>
        /\ callOut.tag = "return"
        /\ callIn.api.kind # "text" => callOut.val = SingleFallback(callIn.username)
        /\ callIn.api.kind = "text" => callOut.val = CheckLength(Strip(callIn.api.text))

\* C28 witness: the completion has no content and the canned reply for
\* the user is returned.
C28_Witness ==
    /\ callOut # NoCall
    /\ callIn.api = ApiNone
    /\ callIn.username = Alice
    /\ callOut.tag = "return"
    /\ callOut.val = <<"H", "e", "l", "l", "o", " ", "a", "l", "i", "c", "e", "!", " ", "M", "e", "r", "c", "i", " ", "p", "o", "u", "r", " ", "t", "o", "n", " ", "m", "e", "s", "s", "a", "g", "e", " ">>

\* C29: once the reply is typed, the second enabled submit button is
\* clicked when there are at least two; with fewer the function raises,
\* clicks no submit button and leaves the typed text; nothing is submitted
\* before the text is typed.
C29_SecondSubmitControl ==
    callOut # NoCall =>
        /\ callOut.typed = "" => callOut.submitted = 0
        /\ callOut.typed # "" =>
              IF callIn.buttons >= 2
              THEN callOut.tag = "return" /\ callOut.submitted = 2
              ELSE /\ callOut.tag = "raise" /\ callOut.submitted = 0
                   /\ callOut.typed = callIn.reply_text

\* C29 witness: the reply was typed on a page with one enabled submit
\* button: the function raised and the text is still typed.
C29_Witness ==
    /\ callOut # NoCall
    /\ callIn.buttons = 1
    /\ callOut.target >= 1 /\ callOut.reply_clicked
    /\ callOut.typed = "r1"
    /\ callOut.tag = "raise" /\ callOut.submitted = 0

\* C31: when a publication task finishes, every comment named in its
\* request that exists is published or failed.
C31_NoneLeftValidated ==
    [][(task.kind = "publish" /\ task.pc = "finally" /\ task'.pc = "done") =>
          \A c \in task.comment_ids \cap DOMAIN comments' :
              comments'[c].status \in {"published", "failed"}]_vars

\* C32: in every state the account of every comment row exists.
C32_OwnerExists ==
    \A c \in DOMAIN comments : comments[c].account_id \in DOMAIN accounts

\* C33: a publish request is accepted only if every id it names is the id
\* of a comment row.
C33_AcceptedIdsExist ==
    [][(IsRequest("publish") /\ last'.code = 200) =>
          last'.arg.ids \subseteq DOMAIN comments]_vars

\* C35: a scrape request is accepted, and its task queued, exactly when
\* the account exists and is active at that moment; a rejected request
\* queues and starts nothing; the request itself creates no row, and every
\* row that appears is saved by a running ingestion task for its account.
C35_ScrapeNeedsActiveAccount ==
    [][/\ IsRequest("scrape") =>
             LET a == last'.arg.account_id
                 usable == a \in DOMAIN accounts /\ accounts[a].active
             IN /\ last'.code = 200 <=> usable
                /\ comments' = comments /\ task' = task
                /\ usable => accepted' = Append(accepted, ScrapeTask(last'.arg.url, a))
                /\ ~usable => accepted' = accepted
       /\ \A c \in DOMAIN comments' \ DOMAIN comments :
             /\ task.kind = "scrape" /\ task.pc = "save"
             /\ comments'[c].account_id = task.account_id]_vars

\* C35 witness: a scrape request for an account that exists and is not
\* active was rejected: nothing is queued and the store has no comment.
C35_Witness ==
    /\ last.op = "scrape" /\ last.code = 500
    /\ last.arg.account_id \in DOMAIN accounts
    /\ ~accounts[last.arg.account_id].active
    /\ accepted = <<>> /\ Idle
    /\ comments = <<>>

\* C37: a moderation call on an existing comment with an unrecognised
\* action, or with modify and no text or an empty one, is answered with
\* success and changes no row; a call on an id that is no comment's is
\* answered with an error and changes no row.
C37_ModerationNoOp ==
    [][IsRequest("moderate") =>
          LET c == last'.arg.id
              action == last'.arg.action
          IN IF c \in DOMAIN comments
             THEN (\/ action \notin {"validate", "reject", "modify"}
                   \/ action = "modify" /\ ~Truthy(last'.arg.text))
                     => (last'.code = 200 /\ comments' = comments)
             ELSE last'.code # 200 /\ comments' = comments]_vars

\* C37 witness: a modify with an empty text on a pending comment was
\* acknowledged and the comment is still pending with its reply.
C37_Witness ==
    /\ last.op = "moderate" /\ last.code = 200
    /\ last.arg.action = "modify" /\ last.arg.text = ""
    /\ last.arg.pre = "pending"
    /\ comments[last.arg.id].status = "pending"
    /\ comments[last.arg.id].ai_response # ""

\* C36: every string that generate_single_response returns has at most
\* 114 characters.
C36_SingleAtMost114 ==
    (callOut # NoCall /\ callOut.tag = "return") => Len(callOut.val) <= 114

\* C34: a publication task posts the reply of, and changes the status of,
\* only comments of the account named in its request.
C34_OwnCommentsOnly ==
    [][task.kind = "publish" =>
          \A c \in DOMAIN comments \cap DOMAIN comments' :
              comments'[c] # comments[c] => comments[c].account_id = task.account_id]_vars

====
